---- MODULE Spec2Model ----
(***************************************************************************)
(* odtools: the ontology/metadata convention layer (subject -> date ->     *)
(* session -> domain/run -> dataset/file) over a hierarchical attributed   *)
(* store.  An entry is identified by its path from the root; the store     *)
(* keeps, per entry, its 'metadata' attribute, its other attributes, its   *)
(* datasets and whether its attributes hold writes not yet committed; the  *)
(* file system keeps the files written under the entries.                  *)
(***************************************************************************)
EXTENDS Integers, Sequences, FiniteSets, TLC

VARIABLES entries, meta, attrs, data, dirty, files, call, yielded, verdict, entry_methods

vars == <<entries, meta, attrs, data, dirty, files, call, yielded, verdict, entry_methods>>

(* ------------------------------ bounds --------------------------------- *)
MaxDepth == 4
MaxEntries == 5
MaxAttrs == 2

(* ------------------------- module constants ---------------------------- *)
METADATA_ENTRY == "metadata"
SUBJECT_KEY == "subject"
DATE_KEY == "date"
SESSION_KEY == "session_number"
DOMAIN_KEY == "domain"
RUN_KEY == "run"
TYPE_KEY == "type"
DEFINITION_KEY == "definition"
VALUE_KEY == "value"
UNIT_KEY == "unit"

(* ------------------------------ values --------------------------------- *)
(* A Python value: None, an int, a str (a sequence of characters) or some  *)
(* other object (a list, say).                                             *)
None == [kind |-> "none", i |-> 0, s |-> <<>>]
IntV(n) == [kind |-> "int", i |-> n, s |-> <<>>]
StrV(s) == [kind |-> "str", i |-> 0, s |-> s]
ObjV == [kind |-> "object", i |-> 0, s |-> <<>>]

DATASET_TYPE == StrV(<<"dataset">>)
FILE_TYPE == StrV(<<"file">>)

DigitChars == <<"0", "1", "2", "3", "4", "5", "6", "7", "8", "9">>
Names == {<<"a">>}
Defs == {StrV(<<"p">>)}
Units == {StrV(<<"u">>)}
GroupKeys == {DOMAIN_KEY, RUN_KEY, DATE_KEY}
Numbers == {None, ObjV, IntV(0), StrV(<<" ", "0">>), StrV(<<"x">>), StrV(<<>>)}
NameArgs == {None} \cup {StrV(n) : n \in Names}

IsDigit(c) == \E d \in 1..10 : DigitChars[d] = c
DigitValue(c) == (CHOOSE d \in 1..10 : DigitChars[d] = c) - 1

RECURSIVE lstrip(_)
lstrip(s) == IF s # <<>> /\ Head(s) = " " THEN lstrip(Tail(s)) ELSE s

RECURSIVE rstrip(_)
rstrip(s) == IF s # <<>> /\ s[Len(s)] = " " THEN rstrip(SubSeq(s, 1, Len(s) - 1)) ELSE s

RECURSIVE DecimalValue(_)
DecimalValue(s) == IF s = <<>> THEN 0
                   ELSE 10 * DecimalValue(SubSeq(s, 1, Len(s) - 1)) + DigitValue(s[Len(s)])

(* int(number): an int is itself; a str is stripped and read in base 10,   *)
(* and raises ValueError unless it is a non-empty run of digits; any other *)
(* object raises TypeError.                                                *)
PyInt(x) ==
    IF x.kind = "int" THEN [exc |-> "", v |-> x.i]
    ELSE IF x.kind = "str"
    THEN LET t == rstrip(lstrip(x.s))
         IN IF t # <<>> /\ \A k \in 1..Len(t) : IsDigit(t[k])
            THEN [exc |-> "", v |-> DecimalValue(t)]
            ELSE [exc |-> "ValueError", v |-> 0]
    ELSE [exc |-> "TypeError", v |-> 0]

(* str(n) of a non-negative int *)
RECURSIVE PyStr(_)
PyStr(n) == IF n < 10 THEN <<DigitChars[n + 1]>>
            ELSE PyStr(n \div 10) \o <<DigitChars[(n % 10) + 1]>>

(* --------------------------- dictionaries ------------------------------ *)
EmptyDict == <<>>
Put(f, k, v) == [x \in (DOMAIN f) \cup {k} |-> IF x = k THEN v ELSE f[x]]

(* ------------------------------- store --------------------------------- *)
Root == <<>>
Store == [entries |-> entries, meta |-> meta, attrs |-> attrs, data |-> data, dirty |-> dirty,
          files |-> files]

(* entry.child_names() *)
child_names(S, e) == {p[Len(p)] : p \in {q \in S.entries : Len(q) = Len(e) + 1 /\ SubSeq(q, 1, Len(e)) = e}}

(* entry.create[name]: the child of that name, created empty when absent *)
create(S, e, name) ==
    LET c == Append(e, name)
    IN IF c \in S.entries THEN S
       ELSE [S EXCEPT !.entries = @ \cup {c},
                      !.attrs = Put(@, c, EmptyDict),
                      !.data = Put(@, c, EmptyDict)]

(* entry.attrs.commit(): the entry's attributes hold no uncommitted write *)
commit(S, e) == [S EXCEPT !.dirty = @ \ {e}]

(* entry.attrs['metadata/<key>'] = value *)
set_meta(S, e, key, value) ==
    [S EXCEPT !.meta = Put(@, e, Put(IF e \in DOMAIN S.meta THEN S.meta[e] ELSE EmptyDict, key, value)),
              !.dirty = @ \cup {e}]

(* entry.attrs['<name>/<key>'] = value *)
set_attr(S, e, name, key, value) ==
    [S EXCEPT !.attrs[e] = Put(@, name, Put(IF name \in DOMAIN @ THEN @[name] ELSE EmptyDict, key, value)),
              !.dirty = @ \cup {e}]

(* ------------------------ ontological structure ------------------------ *)
(* METADATA_ENTRY in entry.attrs.keys(); reading entry.attrs['metadata']   *)
(* of an entry that has none raises KeyError.                              *)
HasMeta(S, e) == e \in DOMAIN S.meta

MetaKeys(S, e) == DOMAIN S.meta[e]

within_subject(S, e) == SUBJECT_KEY \in MetaKeys(S, e)
is_root(S, e) == ~within_subject(S, e)
within_date(S, e) == DATE_KEY \in MetaKeys(S, e)
is_subject(S, e) == within_subject(S, e) /\ ~within_date(S, e)
within_session(S, e) == SESSION_KEY \in MetaKeys(S, e)
is_date(S, e) == within_date(S, e) /\ ~within_session(S, e)
is_run(S, e) == RUN_KEY \in MetaKeys(S, e)
within_domain(S, e) == DOMAIN_KEY \in MetaKeys(S, e)
is_group(S, e) == within_domain(S, e) \/ is_run(S, e)
is_session_ignoring_groups(S, e) == within_session(S, e)
is_session(S, e) == within_session(S, e) /\ ~is_group(S, e)
is_domain(S, e) == within_domain(S, e) /\ ~is_run(S, e)

is_formatting_attribute(attrname) ==
    attrname \in {"type", "dtype", "shape", "compression", "byteorder", "definition", "unit"}

(* ------------------------------- reading ------------------------------- *)
(* A generator's outcome: the exception it raised, if any, and the items   *)
(* it yielded, each a key and an entry.  A key is a tuple of names, or one *)
(* bare name (bare = TRUE, the name being key[1]).                         *)
RECURSIVE SeqOf(_)
SeqOf(A) == IF A = {} THEN <<>>
            ELSE LET x == CHOOSE y \in A : TRUE IN <<x>> \o SeqOf(A \ {x})

RECURSIVE Concat(_)
Concat(ss) == IF ss = <<>> THEN <<>> ELSE Head(ss) \o Concat(Tail(ss))

Item(key, bare, e) == [key |-> key, bare |-> bare, entry |-> e]
Yield(items) == [exc |-> "", items |-> items]
RaiseIter(e) == [exc |-> e, items |-> <<>>]

(* for name in entry.child_names(): yield name, entry[name] *)
children(S, e) == LET names == SeqOf(child_names(S, e))
                  IN [k \in 1..Len(names) |-> Item(<<names[k]>>, TRUE, Append(e, names[k]))]

iter_subjects(S, entry) ==
    IF ~HasMeta(S, entry) THEN RaiseIter("KeyError")
    ELSE IF ~is_root(S, entry) THEN RaiseIter("ValueError")
    ELSE Yield(children(S, entry))

iter_dates(S, entry) ==
    IF ~HasMeta(S, entry) THEN RaiseIter("KeyError")
    ELSE IF is_root(S, entry)
    THEN LET subs == iter_subjects(S, entry).items
         IN Yield(Concat([k \in 1..Len(subs) |->
                    LET dates == children(S, subs[k].entry)
                    IN [j \in 1..Len(dates) |->
                           Item(<<subs[k].key[1], dates[j].key[1]>>, FALSE, dates[j].entry)]]))
    ELSE IF is_subject(S, entry) THEN Yield(children(S, entry))
    ELSE RaiseIter("ValueError")

iter_sessions_unguarded(S, entry) ==
    IF within_date(S, entry) THEN Yield(children(S, entry))
    ELSE LET dates == iter_dates(S, entry)
         IN Yield(Concat([k \in 1..Len(dates.items) |->
                    LET path == dates.items[k].key
                        sessions == children(S, dates.items[k].entry)
                    IN [j \in 1..Len(sessions) |->
                           Item(path \o <<sessions[j].key[1]>>, FALSE, sessions[j].entry)]]))

iter_sessions(S, entry) ==
    IF ~HasMeta(S, entry) THEN RaiseIter("KeyError")
    ELSE IF within_date(S, entry)
    THEN IF within_session(S, entry) THEN RaiseIter("ValueError")
         ELSE Yield(children(S, entry))
    ELSE LET dates == iter_dates(S, entry)
         IN IF dates.exc # "" THEN dates
            ELSE Yield(Concat([k \in 1..Len(dates.items) |->
                    LET path == dates.items[k].key
                        sessions == children(S, dates.items[k].entry)
                    IN [j \in 1..Len(sessions) |->
                           Item(path \o <<sessions[j].key[1]>>, FALSE, sessions[j].entry)]]))

(* the ontology predicates that hold of an entry *)
Classes(S, e) == {c \in {"root", "subject", "date", "session", "domain", "run"} :
                    \/ c = "root" /\ is_root(S, e)
                    \/ c = "subject" /\ is_subject(S, e)
                    \/ c = "date" /\ is_date(S, e)
                    \/ c = "session" /\ is_session(S, e)
                    \/ c = "domain" /\ is_domain(S, e)
                    \/ c = "run" /\ is_run(S, e)}

(* ----------------------------- operations ------------------------------ *)
(* Every operation maps a store to [st, exc, ret]: the store it leaves,    *)
(* the exception it raised ("" when it returned) and the entry returned.   *)
Raise(S, e) == [st |-> S, exc |-> e, ret |-> Root]
Return(S, r) == [st |-> S, exc |-> "", ret |-> r]

copy_attributes_metadata_only(S, src, dst) ==
    commit(IF HasMeta(S, src) THEN [S EXCEPT !.meta = Put(@, dst, S.meta[src])] ELSE S, dst)

copy_attributes(S, src, dst) ==
    LET S1 == IF HasMeta(S, src) THEN [S EXCEPT !.meta = Put(@, dst, S.meta[src])] ELSE S
        S2 == [S1 EXCEPT !.attrs[dst] =
                  [k \in (DOMAIN @) \cup (DOMAIN S.attrs[src]) |->
                      IF k \in DOMAIN S.attrs[src] THEN S.attrs[src][k] ELSE @[k]]]
    IN commit(S2, dst)

add_subject(S, root_entry, name) ==
    IF name = None THEN Raise(S, "ValueError")
    ELSE IF ~HasMeta(S, root_entry) THEN Raise(S, "KeyError")
    ELSE IF ~is_root(S, root_entry) THEN Raise(S, "ValueError")
    ELSE LET subject_entry == Append(root_entry, name.s)
             S1 == create(S, root_entry, name.s)
             S2 == copy_attributes(S1, root_entry, subject_entry)
         IN Return(set_meta(S2, subject_entry, SUBJECT_KEY, name), subject_entry)

add_date(S, subject_entry, date) ==
    IF date = None THEN Raise(S, "ValueError")
    ELSE IF ~HasMeta(S, subject_entry) THEN Raise(S, "KeyError")
    ELSE IF ~is_subject(S, subject_entry) THEN Raise(S, "ValueError")
    ELSE LET date_entry == Append(subject_entry, date.s)
             S1 == create(S, subject_entry, date.s)
             S2 == copy_attributes(S1, subject_entry, date_entry)
         IN Return(set_meta(S2, date_entry, DATE_KEY, date), date_entry)

add_session_any_parent(S, date_entry, number) ==
    IF number = None THEN Raise(S, "ValueError")
    ELSE IF PyInt(number).exc # "" THEN Raise(S, PyInt(number).exc)
    ELSE LET n == PyInt(number).v
             session_entry == Append(date_entry, PyStr(n))
             S1 == create(S, date_entry, PyStr(n))
             S2 == copy_attributes(S1, date_entry, session_entry)
         IN Return(set_meta(S2, session_entry, SESSION_KEY, IntV(n)), session_entry)

add_session(S, date_entry, number) ==
    IF number = None THEN Raise(S, "ValueError")
    ELSE IF ~HasMeta(S, date_entry) THEN Raise(S, "KeyError")
    ELSE IF ~is_date(S, date_entry) THEN Raise(S, "ValueError")
    ELSE IF PyInt(number).exc # "" THEN Raise(S, PyInt(number).exc)
    ELSE LET n == PyInt(number).v
             session_entry == Append(date_entry, PyStr(n))
             S1 == create(S, date_entry, PyStr(n))
             S2 == copy_attributes(S1, date_entry, session_entry)
         IN Return(set_meta(S2, session_entry, SESSION_KEY, IntV(n)), session_entry)

(* key: [none, k], the keyword argument key=None or key=k *)
NoKey == [none |-> TRUE, k |-> ""]
KeyArg(k) == [none |-> FALSE, k |-> k]

add_group_without_metadata(S, parent, name, key, definition) ==
    IF name = None THEN Raise(S, "ValueError")
    ELSE IF key.none THEN Raise(S, "ValueError")
    ELSE LET group == Append(parent, name.s)
             S1 == create(S, parent, name.s)
             S3 == set_meta([S1 EXCEPT !.meta = Put(@, group, EmptyDict)], group, key.k, definition)
         IN Return(set_attr(S3, parent, name.s, DEFINITION_KEY, definition), group)

add_group(S, parent, name, key, definition) ==
    IF name = None THEN Raise(S, "ValueError")
    ELSE IF key.none THEN Raise(S, "ValueError")
    ELSE LET group == Append(parent, name.s)
             S1 == create(S, parent, name.s)
             S2 == IF HasMeta(S1, parent)
                   THEN [S1 EXCEPT !.meta = Put(@, group, S1.meta[parent]), !.dirty = @ \cup {group}]
                   ELSE S1
             S3 == set_meta(S2, group, key.k, definition)
         IN Return(set_attr(S3, parent, name.s, DEFINITION_KEY, definition), group)

add_domain_as_run(S, parent, name, definition) == add_group(S, parent, name, KeyArg(RUN_KEY), definition)

add_domain(S, parent, name, definition) == add_group(S, parent, name, KeyArg(DOMAIN_KEY), definition)

add_run(S, parent, name, definition) == add_group(S, parent, name, KeyArg(RUN_KEY), definition)

(* pathlib's name of parent_path / filename: what follows the last "/" *)
RECURSIVE BaseName(_)
BaseName(s) == IF \E k \in 1..Len(s) : s[k] = "/"
               THEN BaseName(Tail(s))
               ELSE s

add_filepath(S, parent, filename, definition) ==
    IF filename = None THEN Raise(S, "ValueError")
    ELSE LET file_path == Append(parent, filename.s)
             S1 == set_attr(S, parent, BaseName(filename.s), DEFINITION_KEY, definition)
         IN Return(set_attr(S1, parent, BaseName(filename.s), TYPE_KEY, FILE_TYPE), file_path)

add_dataset_checked_late(S, parent, name, value, definition, unit) ==
    LET S1 == [S EXCEPT !.data[parent] = Put(@, name.s, value)]
        S2 == set_attr(S1, parent, name.s, DEFINITION_KEY, definition)
        S3 == set_attr(S2, parent, name.s, UNIT_KEY, unit)
        S4 == set_attr(S3, parent, name.s, TYPE_KEY, DATASET_TYPE)
    IN IF name = None THEN Raise(commit(S4, parent), "ValueError")
       ELSE Return(commit(S4, parent), Root)

add_dataset(S, parent, name, value, definition, unit) ==
    IF name = None THEN Raise(S, "ValueError")
    ELSE LET S1 == [S EXCEPT !.data[parent] = Put(@, name.s, value)]
             S2 == set_attr(S1, parent, name.s, DEFINITION_KEY, definition)
             S3 == set_attr(S2, parent, name.s, UNIT_KEY, unit)
             S4 == set_attr(S3, parent, name.s, TYPE_KEY, DATASET_TYPE)
         IN Return(commit(S4, parent), Root)

add_attribute(S, parent, path, value, definition, unit) ==
    LET S1 == set_attr(S, parent, path.s, DEFINITION_KEY, definition)
        S2 == set_attr(S1, parent, path.s, VALUE_KEY, value)
    IN Return(IF unit # None THEN set_attr(S2, parent, path.s, UNIT_KEY, unit) ELSE S2, Root)

(* dest.attrs[destname/attrname] = source.attrs[name/attrname] for every   *)
(* attribute of source.attrs[name] that is not a formatting attribute      *)
copy_other_attributes(S, source, dest, name, destname) ==
    LET src == S.attrs[source][name]
        others == {k \in DOMAIN src : ~is_formatting_attribute(k)}
        old == IF destname \in DOMAIN S.attrs[dest] THEN S.attrs[dest][destname] ELSE EmptyDict
    IN IF others = {} THEN S
       ELSE [S EXCEPT !.attrs[dest] = Put(@, destname, [k \in (DOMAIN old) \cup others |->
                                                           IF k \in others THEN src[k] ELSE old[k]]),
                      !.dirty = @ \cup {dest}]

HasAttr(S, e, name, key) == name \in DOMAIN S.attrs[e] /\ key \in DOMAIN S.attrs[e][name]

copy_dataset_swapped(S, source, dest, name, destname) ==
    LET dname == IF destname = None THEN name ELSE destname
    IN IF name.s \notin DOMAIN S.data[source] THEN Raise(S, "KeyError")
       ELSE IF ~HasAttr(S, source, name.s, DEFINITION_KEY) THEN Raise(S, "KeyError")
       ELSE IF ~HasAttr(S, source, name.s, UNIT_KEY) THEN Raise(S, "KeyError")
       ELSE LET r == add_dataset(S, dest, dname, S.data[source][name.s],
                                 S.attrs[source][name.s][UNIT_KEY],
                                 S.attrs[source][name.s][DEFINITION_KEY])
            IN Return(copy_other_attributes(r.st, source, dest, name.s, dname.s), Root)

copy_dataset(S, source, dest, name, destname) ==
    LET dname == IF destname = None THEN name ELSE destname
    IN IF name.s \notin DOMAIN S.data[source] THEN Raise(S, "KeyError")
       ELSE IF ~HasAttr(S, source, name.s, DEFINITION_KEY) THEN Raise(S, "KeyError")
       ELSE IF ~HasAttr(S, source, name.s, UNIT_KEY) THEN Raise(S, "KeyError")
       ELSE LET r == add_dataset(S, dest, dname, S.data[source][name.s],
                                 S.attrs[source][name.s][DEFINITION_KEY],
                                 S.attrs[source][name.s][UNIT_KEY])
            IN Return(copy_other_attributes(r.st, source, dest, name.s, dname.s), Root)

(* dest.add_filepath(...) is a method of the entry, which the store may or *)
(* may not provide (methods); where it does, it is taken to be             *)
(* add_filepath(dest, ...).  shutil.copy needs the source file, and a      *)
(* destination that is another file.                                       *)
copy_file(S, source, dest, name, destname, methods) ==
    LET dname == IF destname = None THEN name ELSE destname
        sourcepath == Append(source, name.s)
    IN IF "add_filepath" \notin methods THEN Raise(S, "AttributeError")
       ELSE IF ~HasAttr(S, source, name.s, DEFINITION_KEY) THEN Raise(S, "KeyError")
       ELSE LET r == add_filepath(S, dest, dname, S.attrs[source][name.s][DEFINITION_KEY])
            IN IF sourcepath \notin S.files THEN Raise(r.st, "FileNotFoundError")
               ELSE IF sourcepath = r.ret THEN Raise(r.st, "SameFileError")
               ELSE Return(copy_other_attributes([r.st EXCEPT !.files = @ \cup {r.ret}],
                                                 source, dest, name.s, dname.s), Root)

(* KeyValueFormat.store_under: the content is written as <name>.json *)
store_under(S, group, name, definition) ==
    LET filename == StrV(name.s \o <<".", "j", "s", "o", "n">>)
        r == add_filepath(S, group, filename, definition)
    IN Return([r.st EXCEPT !.files = @ \cup {r.ret}], r.ret)

(* ------------------------------ actions -------------------------------- *)
(* call: the last convention function called, its arguments and outcome.   *)
NoCall == [op |-> "", parent |-> Root, dest |-> Root, arg |-> None, arg2 |-> None,
           key |-> NoKey, exc |-> "", ret |-> Root]
Called(op, parent, arg, r) == [NoCall EXCEPT !.op = op, !.parent = parent, !.arg = arg,
                                             !.exc = r.exc, !.ret = r.ret]

Values == {IntV(7)}

(* attributes of the store that carry a 'type' (datasets and files) *)
TypedCount(S) == Cardinality(UNION {{<<e, n>> : n \in {m \in DOMAIN S.attrs[e] : TYPE_KEY \in DOMAIN S.attrs[e][m]}} :
                                        e \in S.entries})
AttrCount(S) == Cardinality(UNION {{<<e, n>> : n \in DOMAIN S.attrs[e]} : e \in S.entries})

(* The stores explored have at most MaxEntries entries, MaxDepth deep; one  *)
(* that holds datasets or files is the root and its children, with at most *)
(* MaxAttrs attributes.                                                    *)
Fits(S) == /\ Cardinality(S.entries) <= MaxEntries
           /\ \A p \in S.entries : Len(p) <= MaxDepth
           /\ TypedCount(S) > 0 => /\ \A p \in S.entries : Len(p) <= 1
                                   /\ AttrCount(S) <= MaxAttrs

Bounded(r) == r.exc = "" => Fits(r.st)

(* An entry that exists is created again only while it has no children. *)
Creates(r) == /\ Bounded(r)
              /\ (r.exc = "" /\ r.ret \in entries) => child_names(Store, r.ret) = {}

Apply(r, c) == /\ entries' = r.st.entries
               /\ meta' = r.st.meta
               /\ attrs' = r.st.attrs
               /\ data' = r.st.data
               /\ dirty' = r.st.dirty
               /\ files' = r.st.files
               /\ call' = c
               /\ UNCHANGED <<yielded, verdict, entry_methods>>

Call_add_subject(e, name) ==
    LET r == add_subject(Store, e, name)
    IN Creates(r) /\ Apply(r, Called("add_subject", e, name, r))

Call_add_date(e, date) ==
    LET r == add_date(Store, e, date)
    IN Creates(r) /\ Apply(r, Called("add_date", e, date, r))

Call_add_session(e, number) ==
    LET r == add_session(Store, e, number)
    IN Creates(r) /\ Apply(r, Called("add_session", e, number, r))

Call_add_group(e, name, key, definition) ==
    LET r == add_group(Store, e, name, key, definition)
    IN Creates(r) /\ Apply(r, [Called("add_group", e, name, r) EXCEPT !.key = key])

Call_add_domain(e, name, definition) ==
    LET r == add_domain(Store, e, name, definition)
    IN Creates(r) /\ Apply(r, Called("add_domain", e, name, r))

Call_add_run(e, name, definition) ==
    LET r == add_run(Store, e, name, definition)
    IN Creates(r) /\ Apply(r, Called("add_run", e, name, r))

Call_add_filepath(e, filename, definition) ==
    LET r == add_filepath(Store, e, filename, definition)
    IN Bounded(r) /\ Apply(r, Called("add_filepath", e, filename, r))

Call_add_dataset(e, name, value, definition, unit) ==
    LET r == add_dataset(Store, e, name, value, definition, unit)
    IN Bounded(r) /\ Apply(r, Called("add_dataset", e, name, r))

Call_add_attribute(e, path, value, definition, unit) ==
    LET r == add_attribute(Store, e, path, value, definition, unit)
    IN Bounded(r) /\ Apply(r, Called("add_attribute", e, path, r))

Call_store_under(e, name, definition) ==
    LET r == store_under(Store, e, name, definition)
    IN Bounded(r) /\ Apply(r, Called("store_under", e, name, r))

Call_copy_dataset(source, dest, name, destname) ==
    LET r == copy_dataset(Store, source, dest, name, destname)
    IN Bounded(r) /\ Apply(r, [Called("copy_dataset", source, name, r) EXCEPT !.dest = dest, !.arg2 = destname])

Call_copy_file(source, dest, name, destname) ==
    LET r == copy_file(Store, source, dest, name, destname, entry_methods)
    IN Bounded(r) /\ Apply(r, [Called("copy_file", source, name, r) EXCEPT !.dest = dest, !.arg2 = destname])

Call_iter_sessions(e) ==
    LET r == iter_sessions(Store, e)
    IN /\ yielded' = r.items
       /\ call' = [NoCall EXCEPT !.op = "iter_sessions", !.parent = e, !.exc = r.exc]
       /\ UNCHANGED <<entries, meta, attrs, data, dirty, files, verdict, entry_methods>>

Classify(e) ==
    /\ verdict' = Classes(Store, e)
    /\ call' = [NoCall EXCEPT !.op = "classify", !.parent = e]
    /\ UNCHANGED <<entries, meta, attrs, data, dirty, files, yielded, entry_methods>>

(* The caller has seen the outcome of its last call and goes on. *)
Continue == /\ call # NoCall
            /\ call' = NoCall
            /\ UNCHANGED <<entries, meta, attrs, data, dirty, files, yielded, verdict, entry_methods>>

(* -------------------- the store built by the helpers ------------------- *)
Init == /\ entries = {Root}
        /\ meta = [e \in {Root} |-> EmptyDict]
        /\ attrs = [e \in {Root} |-> EmptyDict]
        /\ data = [e \in {Root} |-> EmptyDict]
        /\ dirty = {}
        /\ files = {}
        /\ call = NoCall
        /\ yielded = <<>>
        /\ verdict = {}
        /\ entry_methods = {}

Idle == call = NoCall

Next == \/ Continue
        \/ Idle /\ \E e \in entries, name \in NameArgs : Call_add_subject(e, name)
        \/ Idle /\ \E e \in entries, date \in NameArgs : Call_add_date(e, date)
        \/ Idle /\ \E e \in entries, number \in Numbers : Call_add_session(e, number)
        \/ Idle /\ \E e \in entries, name \in NameArgs, key \in {NoKey} \cup {KeyArg(k) : k \in GroupKeys}, d \in Defs :
                      Call_add_group(e, name, key, d)
        \/ Idle /\ \E e \in entries, name \in NameArgs, d \in Defs : Call_add_domain(e, name, d)
        \/ Idle /\ \E e \in entries, name \in NameArgs, d \in Defs : Call_add_run(e, name, d)
        \/ Idle /\ \E e \in entries, filename \in NameArgs, d \in Defs : Call_add_filepath(e, filename, d)
        \/ Idle /\ \E e \in entries, name \in NameArgs, v \in Values, d \in Defs, u \in Units :
                      Call_add_dataset(e, name, v, d, u)

Spec == Init /\ [][Next]_vars

(* ---------- sessions: a store built by the level helpers only ---------- *)
SessionNames == {StrV(<<"a">>), StrV(<<"b">>)}
SessionNumbers == {IntV(0), StrV(<<"0", "1">>)}

NextSessions == \/ Continue
                \/ Idle /\ \E e \in entries, name \in SessionNames : Call_add_subject(e, name)
                \/ Idle /\ \E e \in entries, date \in SessionNames : Call_add_date(e, date)
                \/ Idle /\ \E e \in entries, number \in SessionNumbers : Call_add_session(e, number)
                \/ Idle /\ \E e \in entries : Call_iter_sessions(e)

SpecSessions == Init /\ [][NextSessions]_vars

(* -------- ontology: the predicates over every metadata key set --------- *)
OntologyKeys == {SUBJECT_KEY, DATE_KEY, SESSION_KEY, DOMAIN_KEY, RUN_KEY, "description"}

InitOntology == /\ entries = {Root}
                /\ \E K \in SUBSET OntologyKeys : meta = [e \in {Root} |-> [k \in K |-> StrV(<<"x">>)]]
                /\ attrs = [e \in {Root} |-> EmptyDict]
                /\ data = [e \in {Root} |-> EmptyDict]
                /\ dirty = {}
                /\ files = {}
                /\ call = NoCall
                /\ yielded = <<>>
                /\ verdict = {}
                /\ entry_methods = {}

NextOntology == Idle /\ \E e \in entries : Classify(e)

SpecOntology == InitOntology /\ [][NextOntology]_vars

(* ---------------- copying: datasets, files and attributes -------------- *)
CopyNames == {StrV(<<"a">>), StrV(<<"b">>)}
CopyDefs == {StrV(<<"p">>), StrV(<<"q">>)}
CopyUnits == {StrV(<<"u">>)}
AttrNames == {StrV(n) : n \in UNION {DOMAIN attrs[e] : e \in entries}}

NextCopyDataset ==
    \/ Continue
    \/ Idle /\ \E e \in entries, name \in Names : Call_add_subject(e, StrV(name))
    \/ Idle /\ \E e \in entries, name \in Names, v \in Values, d \in CopyDefs, u \in CopyUnits :
                  Call_add_dataset(e, StrV(name), v, d, u)
    \/ Idle /\ \E e \in entries, name \in AttrNames, v \in Values, d \in CopyDefs, u \in CopyUnits \cup {None} :
                  Call_add_attribute(e, name, v, d, u)
    \/ Idle /\ \E s \in entries, d \in entries, name \in AttrNames, destname \in CopyNames \cup {None} :
                  Call_copy_dataset(s, d, name, destname)

SpecCopyDataset == Init /\ [][NextCopyDataset]_vars

(* The store may or may not give its entries an add_filepath method. *)
InitCopyFile == /\ entries = {Root}
                /\ meta = [e \in {Root} |-> EmptyDict]
                /\ attrs = [e \in {Root} |-> EmptyDict]
                /\ data = [e \in {Root} |-> EmptyDict]
                /\ dirty = {}
                /\ files = {}
                /\ call = NoCall
                /\ yielded = <<>>
                /\ verdict = {}
                /\ entry_methods \in {{}, {"add_filepath"}}

NextCopyFile ==
    \/ Continue
    \/ Idle /\ \E e \in entries, name \in Names : Call_add_subject(e, StrV(name))
    \/ Idle /\ \E e \in entries, name \in Names, d \in CopyDefs : Call_store_under(e, StrV(name), d)
    \/ Idle /\ \E e \in entries, name \in Names, d \in CopyDefs : Call_add_filepath(e, StrV(name), d)
    \/ Idle /\ \E e \in entries, name \in AttrNames, v \in Values, d \in CopyDefs, u \in CopyUnits \cup {None} :
                  Call_add_attribute(e, name, v, d, u)
    \/ Idle /\ \E s \in entries, d \in entries, name \in AttrNames, destname \in CopyNames \cup {None} :
                  Call_copy_file(s, d, name, destname)

SpecCopyFile == InitCopyFile /\ [][NextCopyFile]_vars

(* ============================== claims ================================= *)
(* A metadata key set is well-formed: 'date' only with 'subject',          *)
(* 'session_number' only with 'date', 'domain' or 'run' only with          *)
(* 'session_number'.                                                       *)
WellFormedKeys(K) == /\ DATE_KEY \in K => SUBJECT_KEY \in K
                     /\ SESSION_KEY \in K => DATE_KEY \in K
                     /\ (DOMAIN_KEY \in K \/ RUN_KEY \in K) => SESSION_KEY \in K

WellFormed(e) == WellFormedKeys(MetaKeys(Store, e))

(* C1: for every entry whose metadata key set is well-formed, exactly one  *)
(* of is_root, is_subject, is_date, is_session, is_domain, is_run holds.   *)
C1_ExactlyOnePredicate ==
    (call.op = "classify" /\ WellFormed(call.parent)) => Cardinality(verdict) = 1

C1_Witness ==
    /\ call.op = "classify"
    /\ WellFormed(call.parent)
    /\ {SESSION_KEY, DOMAIN_KEY} \subseteq MetaKeys(Store, call.parent)
    /\ verdict = {"domain"}

(* C9: in a store built by add_subject, add_date and add_session only,     *)
(* iter_sessions(root) yields exactly one item per session, keyed by       *)
(* (subject name, date, session name) and paired with the session entry;   *)
(* iter_sessions(subject) yields the (date, session name) pairs of that    *)
(* subject only; iter_sessions(date entry) yields that date's session      *)
(* names only; on a session or deeper entry it raises ValueError.          *)
SessionsUnder(e) == {p \in entries : is_session(Store, p) /\ Len(p) > Len(e) /\ SubSeq(p, 1, Len(e)) = e}
SessionKey(p) == <<meta[p][SUBJECT_KEY].s, meta[p][DATE_KEY].s, p[Len(p)]>>
YieldedItems == {yielded[k] : k \in 1..Len(yielded)}

C9_IterSessionsExact ==
    call.op = "iter_sessions" =>
        LET e == call.parent
        IN /\ within_session(Store, e) => call.exc = "ValueError" /\ yielded = <<>>
           /\ ~within_session(Store, e) =>
                 /\ call.exc = ""
                 /\ Len(yielded) = Cardinality(SessionsUnder(e))
                 /\ is_root(Store, e) =>
                       YieldedItems = {Item(SessionKey(p), FALSE, p) : p \in SessionsUnder(e)}
                 /\ is_subject(Store, e) =>
                       YieldedItems = {Item(Tail(SessionKey(p)), FALSE, p) : p \in SessionsUnder(e)}
                 /\ is_date(Store, e) =>
                       YieldedItems = {Item(<<p[Len(p)]>>, TRUE, p) : p \in SessionsUnder(e)}

C9_Witness ==
    /\ call.op = "iter_sessions"
    /\ call.parent = Root
    /\ \E i, j \in 1..Len(yielded) : yielded[i].key[3] # yielded[j].key[3]
    /\ \E i \in 1..Len(yielded) : yielded[i].key[3] = <<"1">>

StoreVars == <<entries, meta, attrs, data, dirty, files>>
Returned(op) == call.op = op /\ call.exc = ""

(* C2: each creation helper called with None for its identifier raises     *)
(* ValueError and leaves the store unchanged: no entry created, no dataset *)
(* stored, no attribute written or committed, for any parent entry.        *)
CreationHelpers == {"add_subject", "add_date", "add_session", "add_group", "add_domain", "add_run",
                    "add_filepath", "add_dataset"}

C2_NoneRejected ==
    [][(call'.op \in CreationHelpers /\ call'.arg = None)
          => (call'.exc = "ValueError" /\ UNCHANGED StoreVars)]_vars

C2_Witness ==
    /\ call.op = "add_dataset"
    /\ call.arg = None
    /\ call.exc = "ValueError"
    /\ call.parent \in dirty
    /\ is_date(Store, call.parent)

LevelKey(op) == IF op = "add_subject" THEN SUBJECT_KEY
                ELSE IF op = "add_date" THEN DATE_KEY ELSE SESSION_KEY
LevelValue == IF call.op = "add_session" THEN IntV(PyInt(call.arg).v) ELSE call.arg
LevelName == IF call.op = "add_session" THEN PyStr(PyInt(call.arg).v) ELSE call.arg.s
AtLevel(op, e) == IF op = "add_subject" THEN is_subject(Store, e)
                  ELSE IF op = "add_date" THEN is_date(Store, e) ELSE is_session(Store, e)
LevelHelpers == {"add_subject", "add_date", "add_session"}

CarriesParent ==
    /\ call.ret = Append(call.parent, LevelName)
    /\ meta[call.ret] = Put(meta[call.parent], LevelKey(call.op), LevelValue)
    /\ \A k \in DOMAIN attrs[call.parent] :
          k \in DOMAIN attrs[call.ret] /\ attrs[call.ret][k] = attrs[call.parent][k]

C6_Original ==
    (call.op \in LevelHelpers /\ call.exc = "") => (AtLevel(call.op, call.ret) /\ CarriesParent)

(* C6, amended: the returned entry carries every attribute of its parent   *)
(* plus the new identifier key, and it is classified at the level it was   *)
(* created for whenever the parent's metadata is well-formed.              *)
C6_LevelOfReturned ==
    (call.op \in LevelHelpers /\ call.exc = "") =>
        /\ CarriesParent
        /\ WellFormed(call.parent) => (AtLevel(call.op, call.ret) /\ Cardinality(Classes(Store, call.ret)) = 1)

C6_Witness ==
    /\ Returned("add_session")
    /\ call.arg.kind = "str"
    /\ WellFormed(call.parent)
    /\ attrs[call.parent] # EmptyDict
    /\ is_session(Store, call.ret)

(* C7 as stated: for every parent that is a session, a domain or a run,    *)
(* add_domain returns an entry satisfying is_domain and add_run one        *)
(* satisfying is_run, whose metadata is the parent's plus the 'domain'     *)
(* (resp. 'run') key, and the parent gains the attribute name/definition.  *)
GroupKey == IF call.op = "add_domain" THEN DOMAIN_KEY ELSE RUN_KEY
GroupCopiesParent ==
    /\ call.ret = Append(call.parent, call.arg.s)
    /\ DOMAIN meta[call.ret] = (DOMAIN meta[call.parent]) \cup {GroupKey}
    /\ \A k \in DOMAIN meta[call.parent] : k # GroupKey => meta[call.ret][k] = meta[call.parent][k]
    /\ HasAttr(Store, call.parent, call.arg.s, DEFINITION_KEY)
    /\ attrs[call.parent][call.arg.s][DEFINITION_KEY] = meta[call.ret][GroupKey]
SessionDomainOrRun(e) == is_session(Store, e) \/ is_domain(Store, e) \/ is_run(Store, e)

C7_Original ==
    (call.op \in {"add_domain", "add_run"} /\ call.exc = "" /\ SessionDomainOrRun(call.parent)) =>
        /\ call.op = "add_domain" => is_domain(Store, call.ret)
        /\ call.op = "add_run" => is_run(Store, call.ret)
        /\ GroupCopiesParent

(* C7, amended: add_run returns an entry satisfying is_run for every       *)
(* parent; add_domain returns one satisfying is_domain for every parent    *)
(* that is not a run (a session or a domain in particular), and one        *)
(* satisfying is_run, not is_domain, for a parent that is a run.           *)
C7_GroupOfReturned ==
    (call.op \in {"add_domain", "add_run"} /\ call.exc = "") =>
        /\ call.op = "add_run" => is_run(Store, call.ret)
        /\ call.op = "add_domain" => (is_domain(Store, call.ret) <=> ~is_run(Store, call.parent))
        /\ call.op = "add_domain" /\ is_run(Store, call.parent) => is_run(Store, call.ret)
        /\ GroupCopiesParent

C7_Witness ==
    /\ Returned("add_domain")
    /\ is_session(Store, call.parent)
    /\ WellFormed(call.parent)
    /\ is_domain(Store, call.ret)

(* C8 as stated: after any sequence of successful helper calls every entry *)
(* has well-formed metadata, exactly one of the six predicates holding.    *)
AllWellFormed == \A e \in entries : WellFormed(e) /\ Cardinality(Classes(Store, e)) = 1

C8_Original == AllWellFormed

(* C8, amended: well-formedness is preserved by add_subject, add_date and  *)
(* add_session, and by add_group, add_domain and add_run when their parent *)
(* is within a session: such a call on a store all of whose entries are    *)
(* well-formed leaves every entry well-formed.                             *)
GroupHelpers == {"add_group", "add_domain", "add_run"}

C8_WellFormedPreserved ==
    [][(/\ call'.op \in LevelHelpers \cup GroupHelpers
        /\ call'.op \in GroupHelpers => within_session(Store, call'.parent)
        /\ AllWellFormed)
          => AllWellFormed']_vars

C8_Witness ==
    /\ Returned("add_run")
    /\ is_session(Store, call.parent)
    /\ is_run(Store, call.ret)
    /\ AllWellFormed

(* C4: after copy_dataset(source, dest, name, destname) of a dataset added *)
(* with add_dataset, dest holds the dataset destname with the same value,  *)
(* dest.attrs[destname] has the same 'definition' and 'unit' as            *)
(* source.attrs[name], type 'dataset', and every attribute of              *)
(* source.attrs[name] that is not a formatting attribute, with its value.  *)
FormattingNames == {"type", "dtype", "shape", "compression", "byteorder", "definition", "unit"}
DestName == IF call.arg2 = None THEN call.arg.s ELSE call.arg2.s

C4_CopyDatasetPreserves ==
    (/\ call.op = "copy_dataset"
     /\ call.arg.s \in DOMAIN data[call.parent]
     /\ HasAttr(Store, call.parent, call.arg.s, DEFINITION_KEY)
     /\ HasAttr(Store, call.parent, call.arg.s, UNIT_KEY)) =>
        LET src == attrs[call.parent][call.arg.s]
        IN /\ call.exc = ""
           /\ DestName \in DOMAIN data[call.dest]
           /\ data[call.dest][DestName] = data[call.parent][call.arg.s]
           /\ DestName \in DOMAIN attrs[call.dest]
           /\ \A k \in {DEFINITION_KEY, UNIT_KEY} \cup ((DOMAIN src) \ FormattingNames) :
                 k \in DOMAIN attrs[call.dest][DestName] /\ attrs[call.dest][DestName][k] = src[k]
           /\ attrs[call.dest][DestName][TYPE_KEY] = DATASET_TYPE

C4_Witness ==
    /\ Returned("copy_dataset")
    /\ call.parent # call.dest
    /\ call.arg2 # None /\ call.arg2 # call.arg
    /\ VALUE_KEY \in DOMAIN attrs[call.parent][call.arg.s]
    /\ attrs[call.dest][DestName][VALUE_KEY] = attrs[call.parent][call.arg.s][VALUE_KEY]

(* C5: after copy_file(source, dest, name, destname) of a file-type        *)
(* attribute that carries a 'definition' and a 'unit' (its file being on   *)
(* disk, the destination another file, and entries providing the           *)
(* add_filepath method the code calls), dest.attrs[destname] has type      *)
(* 'file' and the same 'definition' and 'unit' as source.attrs[name].      *)
C5_CopyFilePreserves ==
    (/\ call.op = "copy_file"
     /\ "add_filepath" \in entry_methods
     /\ HasAttr(Store, call.parent, call.arg.s, TYPE_KEY)
     /\ attrs[call.parent][call.arg.s][TYPE_KEY] = FILE_TYPE
     /\ HasAttr(Store, call.parent, call.arg.s, DEFINITION_KEY)
     /\ HasAttr(Store, call.parent, call.arg.s, UNIT_KEY)
     /\ Append(call.parent, call.arg.s) \in files
     /\ Append(call.parent, call.arg.s) # Append(call.dest, DestName)) =>
        LET src == attrs[call.parent][call.arg.s]
        IN /\ call.exc = ""
           /\ DestName \in DOMAIN attrs[call.dest]
           /\ \A k \in {DEFINITION_KEY, UNIT_KEY, TYPE_KEY} :
                 k \in DOMAIN attrs[call.dest][DestName] /\ attrs[call.dest][DestName][k] = src[k]

====
